---- MODULE Spec2Model ----
(***************************************************************************)
(* DocuMind-AI query-time answering pipeline: RAGEngine.ask / ask_async,   *)
(* GroundingValidator (circuit breaker) and ConfidenceScorer.              *)
(*                                                                         *)
(* Text is a sequence of one-character strings.  An optional payload field *)
(* (dict.get) is a sequence of length <= 1: << >> is None, <<v>> is v.     *)
(* Retrieval scores and confidences are integers in hundredths.            *)
(***************************************************************************)
EXTENDS Integers, Sequences, FiniteSets, TLC

\* ------------------------------------------------------------------ bounds
\* Number of request slots (event-loop tasks or threadpool threads).
NumProcs == 2

\* Cap of _failure_count on the threads, where a stale load carried across
\* a reset lets it grow without limit.
MaxCount == 4

\* ----------------------------------------------------------- program constants
MAX_FAILURES_BEFORE_OPEN == 3

DEFAULT_NO_ANSWER == "DEFAULT_NO_ANSWER"

LLM_ERROR_ANSWER == "LLM_ERROR_ANSWER"

VALIDATION_FAILED_ANSWER == "VALIDATION_FAILED_ANSWER"

Procs == 1..NumProcs

\* ------------------------------------------------------------------- text
Whitespace == {" ", "\t", "\n", "\r"}

RECURSIVE LStrip(_)
LStrip(s) ==
    IF s # << >> /\ Head(s) \in Whitespace THEN LStrip(Tail(s)) ELSE s

RECURSIVE RStrip(_)
RStrip(s) ==
    IF s # << >> /\ s[Len(s)] \in Whitespace
    THEN RStrip(SubSeq(s, 1, Len(s) - 1))
    ELSE s

\* str.strip()
Strip(s) == RStrip(LStrip(s))

VALID == <<"V", "A", "L", "I", "D">>

NoText == << >>

\* A string the program builds: a fixed message and, for the f-string
\* messages, the detail (str(e), the judge's text) appended to it.  Generated
\* text has an empty fixed part.
Reason(msg, detail) == [msg |-> msg, detail |-> detail]

Fixed(msg) == Reason(msg, NoText)

Generated(text) == Reason("", text)

\* reason: None
NoReason == Reason("None", NoText)

\* --------------------------------------------------------------- validator
\* The validation dicts.  tag is the extra key of the dict ("circuit_open",
\* "timeout", "error") or "none" when the dict has only is_valid and reason.
ValidationDict(is_valid, reason, tag) ==
    [is_valid |-> is_valid, reason |-> reason, tag |-> tag]

\* Mutant: the text is compared as it came, without strip.
ParseExact(result) ==
    IF result = VALID
    THEN ValidationDict(TRUE, NoReason, "none")
    ELSE ValidationDict(FALSE, Reason("", result), "none")

_parse_result(result) ==
    LET r == Strip(result) IN
    IF r = VALID
    THEN ValidationDict(TRUE, NoReason, "none")
    ELSE ValidationDict(FALSE, Reason("", r), "none")

\* Mutant: an open circuit rejects the answer (fail-closed).
SkippedClosed ==
    ValidationDict(FALSE, Reason("Validation skipped (circuit open)", NoText), "circuit_open")

SkippedOutcome ==
    ValidationDict(TRUE, Reason("Validation skipped (circuit open)", NoText), "circuit_open")

TimeoutOutcome ==
    ValidationDict(TRUE, Reason("Validation timeout, answer accepted", NoText), "timeout")

ErrorOutcome(e) ==
    ValidationDict(TRUE, Reason("Validation error: ", e), "error")

\* ------------------------------------------------------------------ scorer
Min(a, b) == IF a <= b THEN a ELSE b

Max(a, b) == IF a >= b THEN a ELSE b

RECURSIVE Sum(_)
Sum(s) == IF s = << >> THEN 0 ELSE Head(s) + Sum(Tail(s))

\* round(x, 2) of the double nearest to num/den hundredths (den > 0): the
\* nearest integer; where num/den lies exactly between two integers the
\* double is a little above or below the midpoint, and round gives either.
\* Mutant: the digits after the second decimal are cut off, not rounded.
Truncate(num, den) == {num \div den}

Round(num, den) ==
    LET q == num \div den
        r == num % den
    IN IF 2 * r < den THEN {q}
       ELSE IF 2 * r > den THEN {q + 1}
       ELSE {q, q + 1}

\* Mutant: the early return guards the empty list, not is_valid.
scoreUnlessEmpty(retrieval_scores, num_chunks, is_valid) ==
    IF retrieval_scores = << >> THEN {0}
    ELSE LET N == Len(retrieval_scores)
             S == Sum(retrieval_scores)
             rc == Min(Max(S - 20 * N, 0), 70 * N)
             cc == Min(num_chunks, 5)
         IN Round(rc + 6 * cc * N, N)

\* ConfidenceScorer.score, in hundredths: the values it can return.  With S the sum of the scores (in
\* hundredths) and N their number,
\*   retrieval_confidence = clamp((S/N - 20) / 70, 0, 1)
\*   coverage_confidence  = min(num_chunks / 5, 1)
\*   100 * confidence     = 70 * retrieval_confidence + 30 * coverage_confidence
\*                        = (clamp(S - 20 N, 0, 70 N) + 6 * min(num_chunks, 5) * N) / N
score(retrieval_scores, num_chunks, is_valid) ==
    IF ~is_valid THEN {0}
    ELSE LET N == Len(retrieval_scores)
             S == Sum(retrieval_scores)
             rc == Min(Max(S - 20 * N, 0), 70 * N)
             cc == Min(num_chunks, 5)
         IN Round(rc + 6 * cc * N, N)

\* --------------------------------------------------------------- retrieval
None == << >>

Some(v) == <<v>>

\* A scored point of the vector store: payload is None or a dict whose keys
\* text, file and page may each be missing (dict.get gives None).
Payload(text, file, page) == [text |-> text, file |-> file, page |-> page]

Point(payload, sc) == [payload |-> payload, score |-> sc]

\* r.payload or {}
PayloadOrEmpty(r) ==
    IF r.payload = None THEN Payload(None, None, None) ELSE r.payload[1]

\* not text or not file or page is None
Malformed(payload) ==
    \/ payload.text = None
    \/ payload.text[1] = NoText
    \/ payload.file = None
    \/ payload.file[1] = NoText
    \/ payload.page = None

Digit(n) == <<"0", "1", "2", "3", "4", "5", "6", "7", "8", "9">>[n + 1]

RECURSIVE Decimal(_)
\* str(n) for n >= 0
Decimal(n) == IF n < 10 THEN <<Digit(n)>> ELSE Decimal(n \div 10) \o <<Digit(n % 10)>>

\* f"{file}#page-{page}"
SourceLabel(file, page) == file \o <<"#", "p", "a", "g", "e", "-">> \o Decimal(page)

\* Mutant: the score of a record is appended before the completeness test.
RECURSIVE CollectChunksKeepsScores(_, _)
CollectChunksKeepsScores(results, acc) ==
    IF results = << >> THEN acc
    ELSE LET r == Head(results)
             payload == PayloadOrEmpty(r)
             scored == [acc EXCEPT !.retrieval_scores = Append(@, r.score)]
         IN IF Malformed(payload)
            THEN CollectChunksKeepsScores(Tail(results), scored)
            ELSE CollectChunksKeepsScores(Tail(results),
                   [context_chunks |-> Append(acc.context_chunks, payload.text[1]),
                    sources |-> acc.sources \cup {SourceLabel(payload.file[1], payload.page[1])},
                    retrieval_scores |-> scored.retrieval_scores])

\* The loop over results (rag.py 85-97): malformed records are skipped, the
\* others are appended in retrieval-rank order; sources is a set.
RECURSIVE CollectChunks(_, _)
CollectChunks(results, acc) ==
    IF results = << >> THEN acc
    ELSE LET r == Head(results)
             payload == PayloadOrEmpty(r)
         IN IF Malformed(payload)
            THEN CollectChunks(Tail(results), acc)
            ELSE CollectChunks(Tail(results),
                   [context_chunks |-> Append(acc.context_chunks, payload.text[1]),
                    sources |-> acc.sources \cup {SourceLabel(payload.file[1], payload.page[1])},
                    retrieval_scores |-> Append(acc.retrieval_scores, r.score)])

NoChunks == [context_chunks |-> << >>, sources |-> {}, retrieval_scores |-> << >>]

\* ord(c) for the characters of the source labels
CodePoint(c) ==
    CASE c = "#" -> 35
      [] c = "-" -> 45
      [] c = "." -> 46
      [] c \in {"0", "1", "2", "3", "4", "5", "6", "7", "8", "9"} ->
           48 + (CHOOSE n \in 0..9 : Digit(n) = c)
      [] c = "a" -> 97
      [] c = "b" -> 98
      [] c = "d" -> 100
      [] c = "e" -> 101
      [] c = "f" -> 102
      [] c = "g" -> 103
      [] c = "p" -> 112

RECURSIVE StrLess(_, _)
\* s < t on str: lexicographic by code point
StrLess(s, t) ==
    IF t = << >> THEN FALSE
    ELSE IF s = << >> THEN TRUE
    ELSE IF Head(s) = Head(t) THEN StrLess(Tail(s), Tail(t))
    ELSE CodePoint(Head(s)) < CodePoint(Head(t))

RECURSIVE sortedByLength(_)
\* Mutant: shorter labels first (page-3 before page-10), then by code point.
sortedByLength(S) ==
    IF S = {} THEN << >>
    ELSE LET m == CHOOSE x \in S : \A y \in S \ {x} :
                      \/ Len(x) < Len(y)
                      \/ Len(x) = Len(y) /\ StrLess(x, y)
         IN <<m>> \o sortedByLength(S \ {m})

RECURSIVE sorted(_)
\* sorted(sources) of a set of str
sorted(S) ==
    IF S = {} THEN << >>
    ELSE LET m == CHOOSE x \in S : \A y \in S \ {x} : StrLess(x, y)
         IN <<m>> \o sorted(S \ {m})

\* ------------------------------------------------------- call results
\* What a call gives its caller: a value, or an exception with detail str(e).
Return(v) == [raised |-> FALSE, value |-> v, detail |-> NoText]

Raise(e) == [raised |-> TRUE, value |-> None, detail |-> e]

\* The result dict of ask / ask_async.
QueryResult(answer, sources, validation, confidence) ==
    [answer |-> answer, sources |-> sources, validation |-> validation,
     confidence |-> confidence]

\* log_latency: the wrapped call's result is returned and logged as success;
\* an exception is logged as error and raised again.
log_latency(call) ==
    IF call.raised
    THEN [kind |-> "raised", call |-> call, status |-> "error"]
    ELSE [kind |-> "returned", call |-> call, status |-> "success"]

NoOut == [kind |-> "none", call |-> Raise(NoText), status |-> "none"]

\* ------------------------------------------------------ the collaborators
FileA == <<"a", ".", "p", "d", "f">>

TextOne == <<"t", "1">>

TextTwo == <<"t", "2">>

GoodA3 == Point(Some(Payload(Some(TextOne), Some(FileA), Some(3))), 90)

DupA3 == Point(Some(Payload(Some(TextTwo), Some(FileA), Some(3))), 55)

GoodA10 == Point(Some(Payload(Some(TextTwo), Some(FileA), Some(10))), 20)

NoTextPoint == Point(Some(Payload(Some(NoText), Some(FileA), Some(3))), 80)

NoPagePoint == Point(Some(Payload(Some(TextOne), Some(FileA), None)), 70)

NoFilePoint == Point(Some(Payload(Some(TextOne), None, Some(3))), 50)

NoPayloadPoint == Point(None, 60)

\* What the vector store may answer a query with (ranked, at most top_k = 5).
ResultLists ==
    { << >>,
      <<NoTextPoint, NoPayloadPoint>>,
      <<NoFilePoint, NoPagePoint>>,
      <<GoodA3>>,
      <<GoodA3, DupA3>>,
      <<GoodA3, NoTextPoint, GoodA10>> }

\* response.text of the generation service, and str(e) of its failures.
GeneratedTexts == { <<" ", "o", "k", "\n">> }

GenerationErrors == { <<"5", "0", "3">> }

\* The judge's output, and str(e) of its failures.
JudgeTexts ==
    { VALID,
      <<" ">> \o VALID \o <<"\n">>,
      <<"N", "o", ".", " ">> }

JudgeErrors == { <<"b", "o", "o", "m">> }

\* str(e) of a failure of the embedding model or of the vector store.
ServiceErrors == { <<"d", "o", "w", "n">> }

\* ------------------------------------------------------------------ state
VARIABLES
    failure_count,  \* GroundingValidator._failure_count
    circuit_open,   \* GroundingValidator._circuit_open
    reset_pc,       \* where a reset_circuit running beside the threads is
    pc,             \* per request slot: where its ask / ask_async is
    mode,           \* per request slot: "async" (ask_async) or "sync" (ask)
    frame,          \* per request slot: the locals of its call
    out,            \* per request slot: what the call gave its caller
    stages,         \* per request slot: the stages its query has started
    streak,         \* completed judge failures since the last judge answer or reset
    probe           \* the last direct call of one of the functions: arguments, result

vars == <<failure_count, circuit_open, reset_pc, pc, mode, frame, out, stages, streak, probe>>

NoProbe == [fn |-> "none"]

NewFrame ==
    [results |-> << >>, context_chunks |-> << >>, sources |-> {},
     retrieval_scores |-> << >>, answer |-> NoText, vcall |-> Raise(NoText),
     load |-> 0, err |-> NoText]

Init ==
    /\ failure_count = 0
    /\ circuit_open = FALSE
    /\ reset_pc = "idle"
    /\ pc = [q \in Procs |-> "idle"]
    /\ mode = [q \in Procs |-> "async"]
    /\ frame = [q \in Procs |-> NewFrame]
    /\ out = [q \in Procs |-> NoOut]
    /\ stages = [q \in Procs |-> << >>]
    /\ streak = 0
    /\ probe = NoProbe

\* ------------------------------------------------- GroundingValidator
\* Mutant: the judge's answer does not clear the counter.
OnJudgeReturnKeeps(count) == count

\* self._failure_count = 0 after the judge answered
OnJudgeReturn(count) == 0

\* self._failure_count += 1
OnJudgeFailure(count) == count + 1

\* Mutant: the circuit opens one failure before the threshold.
OpenCircuitEarly(count, open) ==
    IF count + 1 >= MAX_FAILURES_BEFORE_OPEN THEN TRUE ELSE open

\* Mutant: the threshold test is > in place of >=.
OpenCircuitLate(count, open) ==
    IF count > MAX_FAILURES_BEFORE_OPEN THEN TRUE ELSE open

\* if self._failure_count >= MAX_FAILURES_BEFORE_OPEN: self._circuit_open = True
OpenCircuit(count, open) ==
    IF count >= MAX_FAILURES_BEFORE_OPEN THEN TRUE ELSE open

\* Mutant: a judge answer closes the circuit again (a half-open probe).
OpenAfterReturnRecovers(open) == FALSE

\* the judge answering leaves self._circuit_open as it is
OpenAfterReturn(open) == open

\* if self._circuit_open: return {... "circuit_open": True}
SkipsJudge(open) == open

SkipValue == Return(SkippedOutcome)

\* validate_async parses the judge's text; validate strips it first
JudgeReturnValue(m, text) ==
    IF m = "sync" THEN Return(_parse_result(Strip(text)))
    ELSE Return(_parse_result(text))

TimeoutValue == Return(TimeoutOutcome)

\* Mutant: validate has no except clause for the judge's exceptions.
ErrorValueUncaught(e) == Raise(e)

ErrorValue(e) == Return(ErrorOutcome(e))

\* ------------------------------------------------------------ RAGEngine
EmptyRetrieval ==
    QueryResult(Fixed(DEFAULT_NO_ANSWER), << >>,
        ValidationDict(FALSE, Fixed("No relevant context retrieved."), "none"), 0)

MalformedRetrieval ==
    QueryResult(Fixed(DEFAULT_NO_ANSWER), << >>,
        ValidationDict(FALSE, Fixed("Retrieved chunks were empty or malformed."), "none"), 0)

\* Mutant: the LLM-error result drops the sources, like the fast-reject ones.
GenerationFailedNoSources(sources, e) ==
    QueryResult(Fixed(LLM_ERROR_ANSWER), << >>,
        ValidationDict(FALSE, Reason("LLM error: ", e), "none"), 0)

GenerationFailed(sources, e) ==
    QueryResult(Fixed(LLM_ERROR_ANSWER), sorted(sources),
        ValidationDict(FALSE, Reason("LLM error: ", e), "none"), 0)

\* Mutant: the `if not results` return is missing.
EarlyReturnNoEmptyCheck(results, coll) ==
    IF coll.context_chunks = << >> THEN Some(MalformedRetrieval) ELSE None

\* Mutant: a third, undocumented early return when a single chunk survives.
EarlyReturnFewChunks(results, coll) ==
    IF results = << >> THEN Some(EmptyRetrieval)
    ELSE IF coll.context_chunks = << >> THEN Some(MalformedRetrieval)
    ELSE IF Len(coll.context_chunks) < 2 THEN Some(EmptyRetrieval)
    ELSE None

\* The two early returns of ask: `if not results` and `if not context_chunks`
\* (None: the call goes on to generation).
EarlyReturn(results, coll) ==
    IF results = << >> THEN Some(EmptyRetrieval)
    ELSE IF coll.context_chunks = << >> THEN Some(MalformedRetrieval)
    ELSE None

\* Mutant: a raising validator is treated like a degraded one (fail-open).
CaughtValidationFailOpen(vcall) ==
    IF vcall.raised
    THEN ValidationDict(TRUE, Reason("Validation error: ", vcall.detail), "error")
    ELSE vcall.value

\* try: validation = validate(...) except Exception as e: validation = {...}
CaughtValidation(vcall) ==
    IF vcall.raised
    THEN ValidationDict(FALSE, Reason("Validation error: ", vcall.detail), "none")
    ELSE vcall.value

\* Mutant: the generated text is returned whatever the validation says.
AnswerForLeaks(validation, answer) == Generated(answer)

\* the answer of the result dict once validation ran
AnswerFor(validation, answer) ==
    IF ~validation.is_valid THEN Fixed(VALIDATION_FAILED_ANSWER) ELSE Generated(answer)

\* rag.py 131-160 / 224-249: from the validator's call to the result dict
AskTail(f, answer, validation, confidence) ==
    QueryResult(AnswerFor(validation, answer), sorted(f.sources), validation, confidence)

\* Mutant: the number of retrieved records is passed as num_chunks.
ConfidencesCountsResults(f, validation) ==
    score(f.retrieval_scores, Len(f.results), validation.is_valid)

\* confidence_scorer.score(retrieval_scores=..., num_chunks=len(context_chunks), ...)
Confidences(f, validation) ==
    score(f.retrieval_scores, Len(f.context_chunks), validation.is_valid)

Idle(q) == pc[q] \in {"idle", "done"}

\* the call of slot q ends: log_latency hands its result or exception on
Finish(q, call) ==
    /\ pc' = [pc EXCEPT ![q] = "done"]
    /\ out' = [out EXCEPT ![q] = log_latency(call)]

\* the validator returned (or raised): score, assemble, return
Complete(q, answer, vcall, started) ==
    LET validation == CaughtValidation(vcall) IN
    /\ frame' = [frame EXCEPT ![q].answer = answer, ![q].vcall = vcall]
    /\ stages' = [stages EXCEPT ![q] = @ \o started \o <<"score">>]
    /\ \E confidence \in Confidences(frame[q], validation) :
         Finish(q, Return(AskTail(frame[q], answer, validation, confidence)))

\* A request arrives: the call starts and issues the embedding.
Ask(q, m) ==
    /\ Idle(q)
    /\ pc' = [pc EXCEPT ![q] = "embed"]
    /\ mode' = [mode EXCEPT ![q] = m]
    /\ frame' = [frame EXCEPT ![q] = NewFrame]
    /\ out' = [out EXCEPT ![q] = NoOut]
    /\ stages' = [stages EXCEPT ![q] = <<"embed">>]
    /\ UNCHANGED <<failure_count, circuit_open, reset_pc, streak, probe>>

ask_async(q) == Ask(q, "async")

ask(q) == Ask(q, "sync")

\* embedder.embed returns: the vector store is queried.
EmbedReturns(q) ==
    /\ pc[q] = "embed"
    /\ pc' = [pc EXCEPT ![q] = "retrieve"]
    /\ stages' = [stages EXCEPT ![q] = Append(@, "retrieve")]
    /\ UNCHANGED <<failure_count, circuit_open, reset_pc, mode, frame, out, streak, probe>>

\* embedder.embed raises: nothing in ask catches it.
EmbedRaises(q) ==
    /\ pc[q] = "embed"
    /\ \E e \in ServiceErrors : Finish(q, Raise(e))
    /\ UNCHANGED <<failure_count, circuit_open, reset_pc, mode, frame, stages, streak, probe>>

\* query_points raises: nothing in ask catches it.
QueryRaises(q) ==
    /\ pc[q] = "retrieve"
    /\ \E e \in ServiceErrors : Finish(q, Raise(e))
    /\ UNCHANGED <<failure_count, circuit_open, reset_pc, mode, frame, stages, streak, probe>>

\* query_points returns: fast-reject, or collect the chunks and generate.
QueryReturns(q) ==
    /\ pc[q] = "retrieve"
    /\ \E results \in ResultLists :
         LET coll == CollectChunks(results, NoChunks)
             early == EarlyReturn(results, coll)
         IN IF early # None
            THEN /\ Finish(q, Return(early[1]))
                 /\ frame' = [frame EXCEPT ![q].results = results]
                 /\ UNCHANGED stages
            ELSE /\ pc' = [pc EXCEPT ![q] = "generate"]
                 /\ frame' = [frame EXCEPT ![q].results = results,
                                           ![q].context_chunks = coll.context_chunks,
                                           ![q].sources = coll.sources,
                                           ![q].retrieval_scores = coll.retrieval_scores]
                 /\ stages' = [stages EXCEPT ![q] = Append(@, "generate")]
                 /\ UNCHANGED out
    /\ UNCHANGED <<failure_count, circuit_open, reset_pc, mode, streak, probe>>

\* Mutant: the generation call is not inside a try.
GenerateRaisesUncaught(q) ==
    /\ pc[q] = "generate"
    /\ \E e \in GenerationErrors : Finish(q, Raise(e))
    /\ UNCHANGED <<failure_count, circuit_open, reset_pc, mode, frame, stages, streak, probe>>

\* generate_content raises (or response.text is None): the LLM-error result.
GenerateRaises(q) ==
    /\ pc[q] = "generate"
    /\ \E e \in GenerationErrors : Finish(q, Return(GenerationFailed(frame[q].sources, e)))
    /\ UNCHANGED <<failure_count, circuit_open, reset_pc, mode, frame, stages, streak, probe>>

\* generate_content returns: the validator is called.  With the circuit open
\* it returns at once and the call runs to its end; else the judge is asked.
GenerateReturns(q) ==
    /\ pc[q] = "generate"
    /\ \E text \in GeneratedTexts :
         LET answer == Strip(text) IN
         IF SkipsJudge(circuit_open)
         THEN Complete(q, answer, SkipValue, <<"validate">>)
         ELSE /\ pc' = [pc EXCEPT ![q] = "judge"]
              /\ frame' = [frame EXCEPT ![q].answer = answer]
              /\ stages' = [stages EXCEPT ![q] = @ \o <<"validate", "judge">>]
              /\ UNCHANGED out
    /\ UNCHANGED <<failure_count, circuit_open, reset_pc, mode, streak, probe>>

\* The judge answers within the timeout.
JudgeReturns(q) ==
    /\ pc[q] = "judge"
    /\ failure_count' = OnJudgeReturn(failure_count)
    /\ circuit_open' = OpenAfterReturn(circuit_open)
    /\ streak' = 0
    /\ \E text \in JudgeTexts :
         Complete(q, frame[q].answer, JudgeReturnValue(mode[q], text), << >>)
    /\ UNCHANGED <<reset_pc, mode, probe>>

\* validate_async, except asyncio.TimeoutError: no await in the handler.
JudgeTimesOut(q) ==
    /\ pc[q] = "judge"
    /\ mode[q] = "async"
    /\ failure_count' = OnJudgeFailure(failure_count)
    /\ circuit_open' = OpenCircuit(failure_count', circuit_open)
    /\ streak' = streak + 1
    /\ Complete(q, frame[q].answer, TimeoutValue, << >>)
    /\ UNCHANGED <<reset_pc, mode, probe>>

\* validate_async, except Exception: no await in the handler.
JudgeRaises(q) ==
    /\ pc[q] = "judge"
    /\ mode[q] = "async"
    /\ failure_count' = OnJudgeFailure(failure_count)
    /\ circuit_open' = OpenCircuit(failure_count', circuit_open)
    /\ streak' = streak + 1
    /\ \E e \in JudgeErrors : Complete(q, frame[q].answer, ErrorValue(e), << >>)
    /\ UNCHANGED <<reset_pc, mode, probe>>

\* validate, except Exception, on a thread: self._failure_count += 1 first
\* loads the attribute ...
validate_except(q) ==
    /\ pc[q] = "judge"
    /\ mode[q] = "sync"
    /\ failure_count < MaxCount
    /\ \E e \in JudgeErrors :
         frame' = [frame EXCEPT ![q].load = failure_count, ![q].err = e]
    /\ pc' = [pc EXCEPT ![q] = "store"]
    /\ UNCHANGED <<failure_count, circuit_open, reset_pc, mode, out, stages, streak, probe>>

\* ... then stores the sum ...
StoreCount(q) ==
    /\ pc[q] = "store"
    /\ failure_count' = OnJudgeFailure(frame[q].load)
    /\ pc' = [pc EXCEPT ![q] = "check"]
    /\ UNCHANGED <<circuit_open, reset_pc, mode, frame, out, stages, streak, probe>>

\* ... and, after logging, compares the attribute with the threshold.
CheckOpen(q) ==
    /\ pc[q] = "check"
    /\ circuit_open' = OpenCircuit(failure_count, circuit_open)
    /\ streak' = streak + 1
    /\ Complete(q, frame[q].answer, ErrorValue(frame[q].err), << >>)
    /\ UNCHANGED <<failure_count, reset_pc, mode, probe>>

\* reset_circuit called where nothing runs beside it (the event loop: it
\* has no await).
reset_circuit ==
    /\ reset_pc = "idle"
    /\ circuit_open' = FALSE
    /\ failure_count' = 0
    /\ streak' = 0
    /\ UNCHANGED <<reset_pc, pc, mode, frame, out, stages, probe>>

\* reset_circuit on a thread: self._circuit_open = False ...
reset_open ==
    /\ reset_pc = "idle"
    /\ circuit_open' = FALSE
    /\ reset_pc' = "count"
    /\ UNCHANGED <<failure_count, pc, mode, frame, out, stages, streak, probe>>

\* ... then self._failure_count = 0.
reset_count ==
    /\ reset_pc = "count"
    /\ failure_count' = 0
    /\ streak' = 0
    /\ reset_pc' = "idle"
    /\ UNCHANGED <<circuit_open, pc, mode, frame, out, stages, probe>>

\* ---------------------------------------------------------- specifications
\* code/main.py: requests are tasks of one event loop; a task runs without
\* interruption between two awaits.
Next ==
    \/ \E q \in Procs : ask_async(q)
    \/ \E q \in Procs : EmbedReturns(q)
    \/ \E q \in Procs : EmbedRaises(q)
    \/ \E q \in Procs : QueryReturns(q)
    \/ \E q \in Procs : QueryRaises(q)
    \/ \E q \in Procs : GenerateReturns(q)
    \/ \E q \in Procs : GenerateRaises(q)
    \/ \E q \in Procs : JudgeReturns(q)
    \/ \E q \in Procs : JudgeTimesOut(q)
    \/ \E q \in Procs : JudgeRaises(q)
    \/ reset_circuit

Spec == Init /\ [][Next]_vars

\* app/main.py: a def endpoint runs ask on a thread of the server's pool;
\* threads interleave between any two accesses of the validator's attributes.
NextThreads ==
    \/ \E q \in Procs : ask(q)
    \/ \E q \in Procs : EmbedReturns(q)
    \/ \E q \in Procs : EmbedRaises(q)
    \/ \E q \in Procs : QueryReturns(q)
    \/ \E q \in Procs : QueryRaises(q)
    \/ \E q \in Procs : GenerateReturns(q)
    \/ \E q \in Procs : GenerateRaises(q)
    \/ \E q \in Procs : JudgeReturns(q)
    \/ \E q \in Procs : validate_except(q)
    \/ \E q \in Procs : StoreCount(q)
    \/ \E q \in Procs : CheckOpen(q)
    \/ reset_open
    \/ reset_count

SpecThreads == Init /\ [][NextThreads]_vars

\* One call at a time, through either entry point; reset_circuit between calls.
Quiet == \A q \in Procs : Idle(q)

NextSeq ==
    \/ \E q \in Procs : Quiet /\ ask_async(q)
    \/ \E q \in Procs : Quiet /\ ask(q)
    \/ \E q \in Procs : EmbedReturns(q)
    \/ \E q \in Procs : EmbedRaises(q)
    \/ \E q \in Procs : QueryReturns(q)
    \/ \E q \in Procs : QueryRaises(q)
    \/ \E q \in Procs : GenerateReturns(q)
    \/ \E q \in Procs : GenerateRaises(q)
    \/ \E q \in Procs : JudgeReturns(q)
    \/ \E q \in Procs : JudgeTimesOut(q)
    \/ \E q \in Procs : JudgeRaises(q)
    \/ \E q \in Procs : validate_except(q)
    \/ \E q \in Procs : StoreCount(q)
    \/ \E q \in Procs : CheckOpen(q)
    \/ Quiet /\ reset_circuit

SpecSeq == Init /\ [][NextSeq]_vars

\* The same calls with what the code itself guarantees to happen: the timer of
\* asyncio.wait_for fires if the judge has not answered (validator.py 43-46),
\* and the handler of validate runs to its return. No service (embedding,
\* vector store, generation, judge) is assumed to respond.
SpecSeqFair ==
    /\ SpecSeq
    /\ \A q \in Procs :
         /\ WF_vars(JudgeTimesOut(q))
         /\ WF_vars(StoreCount(q))
         /\ WF_vars(CheckOpen(q))

\* ------------------------------------------------------------ direct calls
\* The functions called on their own, as a unit test calls them: score and
\* _parse_result with arguments of the caller's choice, and ask with services
\* that respond and a validator object whose validate returns or raises.
\* probe records the one call made, its arguments and what it gave.
MaxScores == 3

MaxChunks == 7

\* similarity scores, in hundredths
ScoreValues == {-10, 20, 55, 90, 100}

Nines5 == <<90, 90, 90, 90, 90>>

ScoreInputs ==
    UNION { [1..n -> ScoreValues] : n \in 1..MaxScores } \cup {Nines5}

\* num_chunks is an int: any sign
ChunkCounts == -MaxChunks..MaxChunks

Pads == { << >>, <<" ">>, <<"\n">>, <<"\t", " ">> }

Cores ==
    { VALID,
      <<"V", "A", "L", "I", "D", "!">>,
      <<"v", "a", "l", "i", "d">>,
      <<"N", "o", ".">>,
      <<"N", "o", " ", "f", "a", "c", "t">>,
      << >> }

\* judge outputs handed to _parse_result
ParseTexts == { a \o c \o b : a \in Pads, c \in Cores, b \in Pads }

\* what the validator object's validate gives ask
ValidatorCalls ==
    { Raise(e) : e \in JudgeErrors } \cup
    { Return(_parse_result(text)) : text \in JudgeTexts } \cup
    { Return(SkippedOutcome), Return(TimeoutOutcome) }

\* the locals of a call that collected the chunks of results
FrameOf(results) ==
    LET coll == CollectChunks(results, NoChunks) IN
    [NewFrame EXCEPT !.results = results,
                     !.context_chunks = coll.context_chunks,
                     !.sources = coll.sources,
                     !.retrieval_scores = coll.retrieval_scores]

\* ask from its first line to its return, the services' responses given
AskResults(results, text, vcall) ==
    LET f == FrameOf(results)
        early == EarlyReturn(results, f)
        validation == CaughtValidation(vcall)
    IN IF early # None THEN { early[1] }
       ELSE { AskTail(f, Strip(text), validation, confidence) :
                confidence \in Confidences(f, validation) }

CallScore ==
    /\ probe = NoProbe
    /\ \E rs \in ScoreInputs, n \in ChunkCounts, v \in BOOLEAN :
         \E c \in score(rs, n, v) :
           probe' = [fn |-> "score", retrieval_scores |-> rs, num_chunks |-> n,
                     is_valid |-> v, result |-> c]
    /\ UNCHANGED <<failure_count, circuit_open, reset_pc, pc, mode, frame, out, stages, streak>>

CallParse ==
    /\ probe = NoProbe
    /\ \E text \in ParseTexts :
         probe' = [fn |-> "_parse_result", text |-> text, result |-> _parse_result(text)]
    /\ UNCHANGED <<failure_count, circuit_open, reset_pc, pc, mode, frame, out, stages, streak>>

CallAsk ==
    /\ probe = NoProbe
    /\ \E results \in ResultLists, text \in GeneratedTexts, vcall \in ValidatorCalls :
         \E r \in AskResults(results, text, vcall) :
           probe' = [fn |-> "ask", results |-> results, text |-> text, vcall |-> vcall,
                     out |-> log_latency(Return(r))]
    /\ UNCHANGED <<failure_count, circuit_open, reset_pc, pc, mode, frame, out, stages, streak>>

NextCalls ==
    \/ CallScore
    \/ CallParse
    \/ CallAsk

SpecCalls == Init /\ [][NextCalls]_vars

\* ------------------------------------------------- the two entry points
\* ask and ask_async given the same circuit state and the same collaborators.
\* After any number of calls made one at a time, the same script of
\* collaborator outcomes is played twice against the validator state reached:
\* to ask in slot SyncSlot, then, the validator put back in that state, to
\* ask_async in slot AsyncSlot.  probe holds the script and the validator
\* state before the pair and after ask.
SyncSlot == 1

AsyncSlot == 2

\* What the judge does: answers in time, answers after more than
\* VALIDATION_TIMEOUT, or raises.
JudgeOutcomes ==
    { [kind |-> "verdict", text |-> text] : text \in JudgeTexts } \cup
    { [kind |-> "late", text |-> text] : text \in JudgeTexts } \cup
    { [kind |-> "raise", text |-> e] : e \in JudgeErrors }

GenerationOutcomes ==
    { Return(text) : text \in GeneratedTexts } \cup { Raise(e) : e \in GenerationErrors }

Breaker == [failure_count |-> failure_count, circuit_open |-> circuit_open, streak |-> streak]

InPair == probe.fn = "pair"

\* Two fresh calls are set up against the validator as it is.
StartPair ==
    /\ probe = NoProbe
    /\ Quiet
    /\ \E results \in ResultLists, gen \in GenerationOutcomes, judge \in JudgeOutcomes :
         probe' = [fn |-> "pair", stage |-> "sync", results |-> results, gen |-> gen,
                   judge |-> judge, before |-> Breaker, after_sync |-> Breaker]
    /\ pc' = [q \in Procs |-> "idle"]
    /\ frame' = [q \in Procs |-> NewFrame]
    /\ out' = [q \in Procs |-> NoOut]
    /\ stages' = [q \in Procs |-> << >>]
    /\ UNCHANGED <<failure_count, circuit_open, reset_pc, mode, streak>>

\* ask has returned: its effect on the validator is noted and the validator
\* is put back as it was before the pair.
Rewind ==
    /\ InPair
    /\ probe.stage = "sync"
    /\ pc[SyncSlot] = "done"
    /\ probe' = [probe EXCEPT !.stage = "async", !.after_sync = Breaker]
    /\ failure_count' = probe.before.failure_count
    /\ circuit_open' = probe.before.circuit_open
    /\ streak' = probe.before.streak
    /\ UNCHANGED <<reset_pc, pc, mode, frame, out, stages>>

\* the slot whose call runs in this stage of the pair
PairSlot == IF probe.stage = "sync" THEN SyncSlot ELSE AsyncSlot

PairAsk ==
    /\ InPair
    /\ pc[PairSlot] = "idle"
    /\ IF probe.stage = "sync" THEN ask(SyncSlot) ELSE ask_async(AsyncSlot)

PairEmbedReturns == InPair /\ EmbedReturns(PairSlot)

PairQueryReturns ==
    /\ InPair
    /\ QueryReturns(PairSlot)
    /\ frame'[PairSlot].results = probe.results

PairGenerateReturns ==
    /\ InPair
    /\ ~probe.gen.raised
    /\ GenerateReturns(PairSlot)
    /\ frame'[PairSlot].answer = Strip(probe.gen.value)

PairGenerateRaises ==
    /\ InPair
    /\ probe.gen.raised
    /\ GenerateRaises(PairSlot)
    /\ out'[PairSlot].call.value.validation.reason = Reason("LLM error: ", probe.gen.detail)

\* the judge's text reaches the caller: in time, or late where no timer runs
PairJudgeReturns ==
    /\ InPair
    /\ \/ probe.judge.kind = "verdict"
       \/ probe.judge.kind = "late" /\ mode[PairSlot] = "sync"
    /\ JudgeReturns(PairSlot)
    /\ frame'[PairSlot].vcall = JudgeReturnValue(mode[PairSlot], probe.judge.text)

\* wait_for gives up on a judge that answers late
PairJudgeTimesOut ==
    /\ InPair
    /\ probe.judge.kind = "late"
    /\ JudgeTimesOut(PairSlot)

PairJudgeRaises ==
    /\ InPair
    /\ probe.judge.kind = "raise"
    /\ JudgeRaises(PairSlot)
    /\ frame'[PairSlot].vcall = ErrorValue(probe.judge.text)

PairValidateExcept ==
    /\ InPair
    /\ probe.judge.kind = "raise"
    /\ validate_except(PairSlot)
    /\ frame'[PairSlot].err = probe.judge.text

PairStoreCount == InPair /\ StoreCount(PairSlot)

PairCheckOpen == InPair /\ CheckOpen(PairSlot)

\* calls made one at a time before the pair
Warmup == probe = NoProbe /\ NextSeq

NextPair ==
    \/ Warmup
    \/ StartPair
    \/ PairAsk
    \/ PairEmbedReturns
    \/ PairQueryReturns
    \/ PairGenerateReturns
    \/ PairGenerateRaises
    \/ PairJudgeReturns
    \/ PairJudgeTimesOut
    \/ PairJudgeRaises
    \/ PairValidateExcept
    \/ PairStoreCount
    \/ PairCheckOpen
    \/ Rewind

SpecPair == Init /\ [][NextPair]_vars

\* ------------------------------------------------------------------ claims
Has(seq, x) == \E i \in 1..Len(seq) : seq[i] = x

\* slot q's call has come back from the validator and scored
Validated(q) == Has(stages[q], "score")

\* this step is the one in which slot q calls the validator
CallsValidator(q) == ~Has(stages[q], "validate") /\ Has(stages'[q], "validate")

\* the result dict slot q returned
ResultOf(q) == out[q].call.value

Returned(q) == pc[q] = "done" /\ out[q].kind = "returned"

\* C1: with calls made one after the other through either entry point, three
\* failed validate calls in a row (no judge answer, no reset between them)
\* leave the circuit open, and it opens at the third, not before; a validate
\* call made with the circuit open returns the Skipped outcome and does not
\* contact the judge; reset_circuit closes the circuit, and a validate call
\* made with the circuit closed contacts the judge.
C1_OpensAtThreeThenSkips ==
    /\ [](streak >= MAX_FAILURES_BEFORE_OPEN => circuit_open)
    /\ [][~circuit_open /\ circuit_open' => streak' = MAX_FAILURES_BEFORE_OPEN]_vars
    /\ [][\A q \in Procs :
            CallsValidator(q) /\ circuit_open =>
              /\ ~Has(stages'[q], "judge")
              /\ Returned(q)'
              /\ ResultOf(q)'.validation =
                    [is_valid |-> TRUE,
                     reason |-> Fixed("Validation skipped (circuit open)"),
                     tag |-> "circuit_open"]]_vars
    /\ [][\A q \in Procs :
            CallsValidator(q) /\ ~circuit_open =>
              Has(stages'[q], "judge") /\ pc'[q] = "judge"]_vars
    /\ [][reset_circuit => ~circuit_open' /\ failure_count' = 0]_vars

\* C1 witness: three failures in a row have opened the circuit and a fourth
\* call, made through ask, was skipped without the judge.
C1_Witness ==
    /\ circuit_open
    /\ streak = MAX_FAILURES_BEFORE_OPEN
    /\ \E q \in Procs :
         /\ Returned(q)
         /\ mode[q] = "sync"
         /\ Has(stages[q], "validate")
         /\ ~Has(stages[q], "judge")
         /\ ResultOf(q).validation.tag = "circuit_open"

\* C2: on the event loop, a step that takes the circuit from Open to Closed
\* is a reset_circuit step (which leaves the counter 0); no step of a query,
\* whatever its outcome, closes the circuit.
C2_OnlyResetCloses ==
    [][circuit_open /\ ~circuit_open' =>
         /\ failure_count' = 0
         /\ UNCHANGED <<pc, frame, out, stages>>]_vars

\* C2 witness: the circuit is still open after a judge call that was in
\* flight when it opened has answered (the counter is back to 0).
C2_Witness ==
    /\ circuit_open
    /\ failure_count = 0
    /\ \E q \in Procs : Returned(q) /\ Validated(q) /\ ResultOf(q).validation.tag = "none"

\* C3: on the event loop, a validate_async call whose judge call answers,
\* VALID or not, leaves the counter 0; the counter is the number of failures
\* completed since the last judge answer or reset, and the circuit opens
\* only in a step that brings that number to the threshold.
C3_JudgeAnswerClearsCounter ==
    /\ [][\A q \in Procs :
            pc[q] = "judge" /\ Validated(q)' /\ ResultOf(q)'.validation.tag = "none"
              => failure_count' = 0]_vars
    /\ [](failure_count = streak)
    /\ [][~circuit_open /\ circuit_open' => streak' >= MAX_FAILURES_BEFORE_OPEN]_vars

\* C3 witness: a judge rejection has been returned (Invalid) while another
\* slot's call failed, and the counter is 0 with the circuit closed.
C3_Witness ==
    /\ failure_count = 0
    /\ ~circuit_open
    /\ \E q \in Procs :
         /\ Returned(q) /\ Validated(q)
         /\ ResultOf(q).validation.tag = "none"
         /\ ~ResultOf(q).validation.is_valid
    /\ \E q \in Procs :
         Returned(q) /\ Validated(q) /\ ResultOf(q).validation.tag \in {"timeout", "error"}

\* C4: on the threads, the store of an incremented counter writes one more
\* than the counter holds at that moment (no increment is lost), and no step
\* leaves the counter at or above the threshold with the circuit closed.
C4_AtomicFailureHandling ==
    [][/\ \A q \in Procs :
            pc[q] = "store" /\ pc'[q] = "check" => failure_count' = failure_count + 1
       /\ failure_count' >= MAX_FAILURES_BEFORE_OPEN => circuit_open']_vars

\* C5: every validate / validate_async call that has come back gave its
\* caller a validation dict, whatever the judge did and whatever the circuit
\* state was: it did not raise.
C5_ValidateNeverRaises ==
    \A q \in Procs :
        Validated(q) =>
          /\ ~frame[q].vcall.raised
          /\ frame[q].vcall.value.is_valid \in BOOLEAN
          /\ frame[q].vcall.value.tag \in {"none", "circuit_open", "timeout", "error"}

\* C5 witness: both entry points have come back from a judge exception.
C5_Witness ==
    /\ \E q \in Procs :
         Validated(q) /\ mode[q] = "sync" /\ frame[q].vcall.value.tag = "error"
    /\ \E q \in Procs :
         Validated(q) /\ mode[q] = "async" /\ frame[q].vcall.value.tag \in {"error", "timeout"}

GeneratedAnswers == { Generated(Strip(t)) : t \in GeneratedTexts }

\* C6: a returned result whose validation is Degraded (timeout, exception)
\* or Skipped (circuit open) carries the generated answer, not the
\* validation-failed string; a query that reaches the validator while the
\* circuit is open returns its generated answer in that step.
C6_FailOpen ==
    /\ [](\A q \in Procs :
            Returned(q) /\ Validated(q)
              /\ ResultOf(q).validation.tag \in {"circuit_open", "timeout", "error"}
            => /\ ResultOf(q).answer \in GeneratedAnswers
               /\ ResultOf(q).answer # Fixed(VALIDATION_FAILED_ANSWER))
    /\ [][\A q \in Procs :
            CallsValidator(q) /\ circuit_open =>
              Returned(q)' /\ ResultOf(q)'.answer \in GeneratedAnswers]_vars

\* C6 witness: the circuit is open, one query was skipped and one degraded.
C6_Witness ==
    /\ circuit_open
    /\ \E q \in Procs :
         Returned(q) /\ Validated(q) /\ ResultOf(q).validation.tag = "circuit_open"
    /\ \E q \in Procs :
         Returned(q) /\ Validated(q) /\ ResultOf(q).validation.tag \in {"timeout", "error"}

\* inputs of score beyond those the queries of the model produce
ScoreLists == { << >>, <<90>>, <<20, 55>>, <<100, 100, 100>>, <<0 - 30>> }

ScoreCounts == 0..6

\* C7: every returned result whose validation has is_valid false has
\* confidence 0.0; score gives 0.0 for is_valid false whatever the scores and
\* the chunk count; and the result ask builds when the validator call raises
\* is invalid with confidence 0.0.
C7_InvalidHasZeroConfidence ==
    /\ \A q \in Procs :
         Returned(q) /\ ~ResultOf(q).validation.is_valid => ResultOf(q).confidence = 0
    /\ \A rs \in ScoreLists : \A n \in ScoreCounts : score(rs, n, FALSE) = {0}
    /\ \A results \in ResultLists : \A e \in JudgeErrors :
         LET validation == CaughtValidation(Raise(e)) IN
         ~validation.is_valid /\ Confidences(FrameOf(results), validation) = {0}

\* C7 witness: the judge rejected an answer retrieved with score 0.9, and
\* the result has confidence 0.0.
C7_Witness ==
    \E q \in Procs :
        /\ Returned(q) /\ Validated(q)
        /\ ResultOf(q).validation.tag = "none"
        /\ ~ResultOf(q).validation.is_valid
        /\ frame[q].retrieval_scores = <<90>>
        /\ ResultOf(q).confidence = 0

\* C8: a returned result carries generated text only if its validation has
\* is_valid true; a query whose validation ran and is not valid returns the
\* fixed validation-failed string, its sorted sources and the confidence
\* score computes for an invalid answer.
C8_AnswerOnlyWhenValid ==
    \A q \in Procs :
        Returned(q) =>
          /\ ResultOf(q).answer.msg = "" => ResultOf(q).validation.is_valid
          /\ Validated(q) /\ ~ResultOf(q).validation.is_valid =>
                /\ ResultOf(q).answer = Fixed(VALIDATION_FAILED_ANSWER)
                /\ ResultOf(q).sources = sorted(frame[q].sources)
                /\ ResultOf(q).sources # << >>
                /\ ResultOf(q).confidence \in
                      score(frame[q].retrieval_scores, Len(frame[q].context_chunks), FALSE)

\* C8 witness: ask and ask_async have each returned a judge rejection.
C8_Witness ==
    /\ \E q \in Procs :
         /\ Returned(q) /\ Validated(q) /\ mode[q] = "sync"
         /\ ~ResultOf(q).validation.is_valid
    /\ \E q \in Procs :
         /\ Returned(q) /\ Validated(q) /\ mode[q] = "async"
         /\ ~ResultOf(q).validation.is_valid

\* sorted, without duplicates
StrictlySorted(seq) ==
    \A i \in 1..Len(seq) : \A j \in 1..Len(seq) : i < j => StrLess(seq[i], seq[j])

WellFormed(r) ==
    /\ r.answer \in GeneratedAnswers \cup
          { Fixed(DEFAULT_NO_ANSWER), Fixed(LLM_ERROR_ANSWER), Fixed(VALIDATION_FAILED_ANSWER) }
    /\ StrictlySorted(r.sources)
    /\ r.validation.is_valid \in BOOLEAN
    /\ r.confidence \in 0..100

\* C9 as stated: every call that ended, whatever stage failed, returned a
\* well-formed result.
C9_NeverRaises ==
    \A q \in Procs :
        pc[q] = "done" => out[q].kind = "returned" /\ WellFormed(ResultOf(q))

\* C9 amended: a call that ended raised only if the embedding or the
\* vector-store query failed (log_latency logs the error and raises it
\* again); a call that got as far as generation returned, and what a call
\* returns is a well-formed result.
C9_OnlyEarlyStagesRaise ==
    \A q \in Procs :
        pc[q] = "done" =>
          IF out[q].kind = "raised"
          THEN /\ ~Has(stages[q], "generate")
               /\ out[q].status = "error"
               /\ out[q].call.detail \in ServiceErrors
          ELSE /\ out[q].kind = "returned"
               /\ out[q].status = "success"
               /\ WellFormed(ResultOf(q))

\* C9 witness: one call returned the LLM-error result after a generation
\* failure, another raised out of the vector-store query.
C9_Witness ==
    /\ \E q \in Procs :
         Returned(q) /\ ResultOf(q).answer = Fixed(LLM_ERROR_ANSWER)
    /\ \E q \in Procs :
         pc[q] = "done" /\ out[q].kind = "raised" /\ Has(stages[q], "retrieve")

\* C10: a query whose lookup gave no results returns the no-answer string,
\* no sources, Invalid "No relevant context retrieved." and confidence 0.0,
\* having started neither generation nor validation nor scoring, and the
\* step that returns it leaves the counter and the circuit as they were.
C10_ZeroResultsFastReject ==
    /\ [](\A q \in Procs :
            Returned(q) /\ frame[q].results = << >> =>
              /\ ResultOf(q) =
                    [answer |-> Fixed(DEFAULT_NO_ANSWER),
                     sources |-> << >>,
                     validation |->
                       [is_valid |-> FALSE,
                        reason |-> Fixed("No relevant context retrieved."),
                        tag |-> "none"],
                     confidence |-> 0]
              /\ stages[q] = <<"embed", "retrieve">>)
    /\ [][\A q \in Procs :
            pc[q] = "retrieve" /\ Returned(q)' /\ frame'[q].results = << >> =>
              UNCHANGED <<failure_count, circuit_open, streak>>]_vars

\* C10 witness: both entry points have returned the zero-results result.
C10_Witness ==
    /\ \E q \in Procs : Returned(q) /\ frame[q].results = << >> /\ mode[q] = "sync"
    /\ \E q \in Procs : Returned(q) /\ frame[q].results = << >> /\ mode[q] = "async"

\* the labels of a sequence of sources
Labels(seq) == { seq[i] : i \in 1..Len(seq) }

\* C11: the step in which a query's generation call fails returns the fixed
\* LLM-error answer, the non-empty sorted sources of the retrieval, Invalid
\* "LLM error: <detail>" and confidence 0.0; generation was started once,
\* the validator and the scorer were not, and the step leaves the counter
\* and the circuit as they were.
C11_GenerationFailureIsLocal ==
    [][\A q \in Procs :
         GenerateRaises(q) =>
           /\ Returned(q)'
           /\ ResultOf(q)'.answer = Fixed(LLM_ERROR_ANSWER)
           /\ ResultOf(q)'.sources # << >>
           /\ StrictlySorted(ResultOf(q)'.sources)
           /\ Labels(ResultOf(q)'.sources) = frame[q].sources
           /\ ~ResultOf(q)'.validation.is_valid
           /\ ResultOf(q)'.validation.reason \in
                 { Reason("LLM error: ", e) : e \in GenerationErrors }
           /\ ResultOf(q)'.confidence = 0
           /\ stages'[q] = <<"embed", "retrieve", "generate">>
           /\ UNCHANGED <<failure_count, circuit_open, streak>>]_vars

\* C11 witness: ask and ask_async have each returned the LLM-error result,
\* one of them with two sources, while the counter stands at 2.
C11_Witness ==
    /\ failure_count = 2
    /\ \E q \in Procs :
         /\ Returned(q) /\ mode[q] = "sync"
         /\ ResultOf(q).answer = Fixed(LLM_ERROR_ANSWER)
         /\ Len(ResultOf(q).sources) = 2
    /\ \E q \in Procs :
         /\ Returned(q) /\ mode[q] = "async"
         /\ ResultOf(q).answer = Fixed(LLM_ERROR_ANSWER)

\* the stages in the order ask runs them (the judge is part of validation)
Pipeline == <<"embed", "retrieve", "generate", "validate", "score">>

IsPrefix(s, t) == Len(s) <= Len(t) /\ \A i \in 1..Len(s) : s[i] = t[i]

RECURSIVE Without(_, _)
Without(seq, x) ==
    IF seq = << >> THEN << >>
    ELSE IF Head(seq) = x THEN Without(Tail(seq), x)
    ELSE <<Head(seq)>> \o Without(Tail(seq), x)

\* every record of results is malformed
AllMalformed(results) ==
    \A i \in 1..Len(results) : Malformed(PayloadOrEmpty(results[i]))

\* C12: the stages a query has started are a prefix of embedding, retrieval,
\* generation, validation, scoring, and the next one starts in the step that
\* ends its predecessor; a query that returned without running them all had
\* zero results, only malformed records, or a failed generation.
C12_StagesInOrder ==
    /\ [](\A q \in Procs :
            /\ IsPrefix(Without(stages[q], "judge"), Pipeline)
            /\ Has(stages[q], "judge") => Has(stages[q], "validate")
            /\ pc[q] = "embed" => stages[q] = <<"embed">>
            /\ pc[q] = "retrieve" => stages[q] = <<"embed", "retrieve">>
            /\ pc[q] = "generate" => stages[q] = <<"embed", "retrieve", "generate">>
            /\ pc[q] = "judge" =>
                  stages[q] = <<"embed", "retrieve", "generate", "validate", "judge">>
            /\ Returned(q) /\ Without(stages[q], "judge") # Pipeline =>
                  \/ /\ stages[q] = <<"embed", "retrieve">>
                     /\ frame[q].results = << >>
                     /\ ResultOf(q).validation.reason = Fixed("No relevant context retrieved.")
                  \/ /\ stages[q] = <<"embed", "retrieve">>
                     /\ frame[q].results # << >>
                     /\ AllMalformed(frame[q].results)
                     /\ ResultOf(q).validation.reason =
                           Fixed("Retrieved chunks were empty or malformed.")
                  \/ /\ stages[q] = <<"embed", "retrieve", "generate">>
                     /\ ResultOf(q).answer = Fixed(LLM_ERROR_ANSWER))
    /\ [][\A q \in Procs :
            stages'[q] # stages[q] /\ stages'[q] # <<"embed">> =>
              IsPrefix(stages[q], stages'[q])]_vars

\* C12 witness: one query ran every stage, judge included, and another
\* returned from retrieval because all its records were malformed.
C12_Witness ==
    /\ \E q \in Procs :
         /\ Returned(q)
         /\ stages[q] = <<"embed", "retrieve", "generate", "validate", "judge", "score">>
    /\ \E q \in Procs :
         /\ Returned(q)
         /\ stages[q] = <<"embed", "retrieve">>
         /\ frame[q].results # << >>

\* C13: a query that has started its generation call or its judge call, through
\* ask_async or ask, eventually returns, whether or not the service responds.
C13_BoundedByTimeout ==
    \A q \in Procs : pc[q] \in {"generate", "judge"} ~> pc[q] = "done"

\* The part of C13 the code does keep: validate_async is bounded by wait_for,
\* so a query of ask_async waiting for the judge returns a result.
C13_AsyncJudgeBounded ==
    \A q \in Procs : (pc[q] = "judge" /\ mode[q] = "async") ~> Returned(q)

\* the mean of a is at most the mean of b
MeanLeq(a, b) == Sum(a) * Len(b) <= Sum(b) * Len(a)

\* score does not decrease from the recorded call to any call with a mean and
\* a chunk count at least as large, nor from any call with smaller ones to it
Monotone ==
    \A rs \in ScoreInputs, n \in ChunkCounts :
        /\ (MeanLeq(probe.retrieval_scores, rs) /\ probe.num_chunks <= n) =>
              \E w \in score(rs, n, TRUE) : probe.result <= w
        /\ (MeanLeq(rs, probe.retrieval_scores) /\ n <= probe.num_chunks) =>
              \E u \in score(rs, n, TRUE) : u <= probe.result

\* C14: for is_valid true, every non-empty list of scores and every integer
\* chunk count, score returns a value in [0.0, 1.0] and does not decrease
\* when the mean score or the chunk count grows.
C14_ScoreInUnitRange ==
    (probe.fn = "score" /\ probe.is_valid) =>
        /\ probe.result \in 0..100
        /\ Monotone

\* What score does keep: the same for chunk counts that are not negative.
C14_InRangeForCounts ==
    (probe.fn = "score" /\ probe.is_valid /\ probe.num_chunks >= 0) =>
        /\ probe.result \in 0..100
        /\ Monotone

\* v is x / den rounded to a whole number (either neighbour at a tie)
IsRounded(v, x, den) == 2 * v * den - den <= 2 * x /\ 2 * x <= 2 * v * den + den

\* C15: for is_valid true and a chunk count n >= 0, score is
\* 0.7 * clamp((mean - 0.2) / 0.7, 0, 1) + 0.3 * clamp(n / 5, 0, 1) rounded to
\* two decimals: a mean of 0.2 or less contributes 0, a mean of 0.9 or more
\* contributes 0.7, five chunks or more contribute 0.3; ([0.9]*5, 5) gives
\* 1.0 and ([0.2], 1) gives 0.06.
C15_ScoreFormula ==
    (probe.fn = "score" /\ probe.is_valid /\ probe.num_chunks >= 0) =>
        LET rs == probe.retrieval_scores
            N == Len(rs)
            S == Sum(rs)
            n == probe.num_chunks
            v == probe.result
            \* 70 * N * clamp((S/N - 20) / 70, 0, 1)
            retrieval == IF S <= 20 * N THEN 0
                         ELSE IF S >= 90 * N THEN 70 * N
                         ELSE S - 20 * N
            \* 30 * 5 * clamp(n / 5, 0, 1)
            coverage == IF n >= 5 THEN 150 ELSE 30 * n
        IN /\ IsRounded(v, 5 * retrieval + N * coverage, 5 * N)
           /\ S <= 20 * N /\ n >= 5 => v = 30
           /\ S >= 90 * N /\ n >= 5 => v = 100
           /\ (rs = Nines5 /\ n = 5) => v = 100
           /\ (rs = <<20>> /\ n = 1) => v = 6

\* C15 witness: score was called with a mean strictly between 0.2 and 0.9
\* whose result is not a whole number of hundredths before rounding, and
\* returned the nearest hundredth (0.47 for [0.55, 0.55, 0.9] and 0 chunks).
C15_Witness ==
    /\ probe.fn = "score"
    /\ probe.is_valid
    /\ probe.retrieval_scores = <<55, 55, 90>>
    /\ probe.num_chunks = 0
    /\ probe.result = 47

\* the records of results that have text, file and page, in rank order
Kept(results) == SelectSeq(results, LAMBDA r : ~Malformed(PayloadOrEmpty(r)))

LabelOf(r) == SourceLabel(r.payload[1].file[1], r.payload[1].page[1])

SurvivorLabels(results) == { LabelOf(Kept(results)[i]) : i \in 1..Len(Kept(results)) }

\* C16: the sources of every returned result are in strictly increasing
\* lexicographic order (sorted, no duplicate), however many chunks name the
\* same file and page; in a result returned after the fast-reject checks
\* they are exactly the "file#page-N" labels of the well-formed records.
C16_SourcesSortedUnique ==
    \A q \in Procs :
        Returned(q) =>
            /\ StrictlySorted(ResultOf(q).sources)
            /\ Has(stages[q], "generate") =>
                  /\ Labels(ResultOf(q).sources) = SurvivorLabels(frame[q].results)
                  /\ Len(ResultOf(q).sources) = Cardinality(SurvivorLabels(frame[q].results))

\* C16 witness: two chunks of a.pdf page 3 gave the one source a.pdf#page-3,
\* and chunks of page 3 and page 10, ranked in that order, gave
\* a.pdf#page-10 before a.pdf#page-3.
C16_Witness ==
    /\ \E q \in Procs :
         /\ Returned(q)
         /\ frame[q].results = <<GoodA3, DupA3>>
         /\ ResultOf(q).sources = <<SourceLabel(FileA, 3)>>
    /\ \E q \in Procs :
         /\ Returned(q)
         /\ frame[q].results = <<GoodA3, NoTextPoint, GoodA10>>
         /\ ResultOf(q).sources = <<SourceLabel(FileA, 10), SourceLabel(FileA, 3)>>

AllWhitespace(s) == \A i \in 1..Len(s) : s[i] \in Whitespace

\* core is text without its leading and trailing whitespace
IsTrimOf(core, text) ==
    /\ core = << >> \/ (core[1] \notin Whitespace /\ core[Len(core)] \notin Whitespace)
    /\ \E a \in 0..Len(text), b \in 0..Len(text) :
         /\ a + b + Len(core) = Len(text)
         /\ AllWhitespace(SubSeq(text, 1, a))
         /\ AllWhitespace(SubSeq(text, Len(text) - b + 1, Len(text)))
         /\ core = SubSeq(text, a + 1, Len(text) - b)

\* C17 as stated: a judge output that is VALID once trimmed maps to Valid, and
\* any other non-empty output maps to Invalid with the output itself,
\* character for character, as reason.
C17_ReasonVerbatim ==
    (probe.fn = "_parse_result" /\ probe.text # NoText) =>
        IF IsTrimOf(VALID, probe.text)
        THEN probe.result.is_valid /\ probe.result.reason = NoReason
        ELSE ~probe.result.is_valid /\ probe.result.reason = Reason("", probe.text)

\* C17, amended: a judge output that is VALID once trimmed maps to Valid with
\* no reason; any other output maps to Invalid whose reason is the output
\* without its leading and trailing whitespace (empty for an output that is
\* empty or all whitespace).
C17_ReasonTrimmed ==
    probe.fn = "_parse_result" =>
        IF IsTrimOf(VALID, probe.text)
        THEN probe.result.is_valid /\ probe.result.reason = NoReason
        ELSE /\ ~probe.result.is_valid
             /\ probe.result.reason.msg = ""
             /\ IsTrimOf(probe.result.reason.detail, probe.text)

\* C17 witness: _parse_result was given a verdict other than VALID with
\* whitespace on both sides and returned Invalid with the trimmed text.
C17_Witness ==
    /\ probe.fn = "_parse_result"
    /\ probe.text = <<"\t", " ", "N", "o", " ", "f", "a", "c", "t", "\n">>
    /\ ~probe.result.is_valid
    /\ probe.result.reason = Reason("", <<"N", "o", " ", "f", "a", "c", "t">>)

\* C18: once a query is past retrieval, its context chunks and retrieval
\* scores are those of the records that have text, file and page, in rank
\* order, and its sources their labels: a record missing one of the three
\* contributes nothing.  A query whose records were all malformed returned
\* the fast-reject result with reason "Retrieved chunks were empty or
\* malformed.", no sources and confidence 0.0, and started neither generation
\* nor validation.
C18_MalformedDropped ==
    \A q \in Procs :
        LET kept == Kept(frame[q].results) IN
        /\ Has(stages[q], "generate") =>
              /\ kept # << >>
              /\ frame[q].context_chunks = [i \in 1..Len(kept) |-> kept[i].payload[1].text[1]]
              /\ frame[q].retrieval_scores = [i \in 1..Len(kept) |-> kept[i].score]
              /\ frame[q].sources = SurvivorLabels(frame[q].results)
        /\ (pc[q] = "done" /\ frame[q].results # << >> /\ kept = << >>) =>
              /\ Returned(q)
              /\ ResultOf(q).answer = Fixed(DEFAULT_NO_ANSWER)
              /\ ResultOf(q).sources = << >>
              /\ ResultOf(q).validation =
                    ValidationDict(FALSE, Fixed("Retrieved chunks were empty or malformed."), "none")
              /\ ResultOf(q).confidence = 0
              /\ stages[q] = <<"embed", "retrieve">>

\* C18 witness: a call of ask kept the first and third of three records, the
\* second having no text, and a call whose two records lacked file and page
\* returned the fast-reject result.
C18_Witness ==
    /\ \E q \in Procs :
         /\ mode[q] = "sync"
         /\ frame[q].results = <<GoodA3, NoTextPoint, GoodA10>>
         /\ frame[q].context_chunks = <<TextOne, TextTwo>>
         /\ frame[q].retrieval_scores = <<90, 20>>
         /\ Returned(q)
    /\ \E q \in Procs :
         /\ frame[q].results = <<NoFilePoint, NoPagePoint>>
         /\ Returned(q)
         /\ ResultOf(q).sources = << >>

\* C19: in the step in which a query calls score, its retrieval_scores are
\* not empty and as many as its surviving chunks, and the confidence it
\* returns is score's for that list with that length as chunk count.
C19_ScorerPrecondition ==
    [][\A q \in Procs :
         (~Has(stages[q], "score") /\ Has(stages'[q], "score")) =>
           /\ frame[q].retrieval_scores # << >>
           /\ Len(frame[q].retrieval_scores) = Len(frame[q].context_chunks)
           /\ Len(frame[q].retrieval_scores) = Len(Kept(frame[q].results))
           /\ ResultOf(q)'.confidence \in
                 score(frame[q].retrieval_scores, Len(frame[q].retrieval_scores),
                       ResultOf(q)'.validation.is_valid)]_vars

\* C19 witness: a query that retrieved three records, one of them malformed,
\* has called score with two scores and returned a positive confidence.
C19_Witness ==
    \E q \in Procs :
        /\ Returned(q)
        /\ Has(stages[q], "score")
        /\ Len(frame[q].results) = 3
        /\ Len(frame[q].retrieval_scores) = 2
        /\ ResultOf(q).confidence > 0

\* C20: when the validator's call raises inside ask, ask still returns a
\* result, whose validation is Invalid "Validation error: <detail>", whose
\* answer is the fixed validation-failed answer and whose confidence is 0.0.
C20_ValidatorRaiseCaught ==
    (probe.fn = "ask" /\ probe.vcall.raised /\ Kept(probe.results) # << >>) =>
        /\ probe.out.kind = "returned"
        /\ probe.out.call.value.validation =
              ValidationDict(FALSE, Reason("Validation error: ", probe.vcall.detail), "none")
        /\ probe.out.call.value.answer = Fixed(VALIDATION_FAILED_ANSWER)
        /\ probe.out.call.value.confidence = 0
        /\ probe.out.call.value.sources = sorted(SurvivorLabels(probe.results))

\* C20 witness: ask ran with two surviving chunks and a validator that
\* raised, and returned confidence 0.0 with its two sources.
C20_Witness ==
    /\ probe.fn = "ask"
    /\ probe.vcall.raised
    /\ probe.out.kind = "returned"
    /\ Len(probe.out.call.value.sources) = 2
    /\ probe.out.call.value.confidence = 0

\* C21 as stated: in every state of concurrent validate_async calls and
\* reset_circuit, the circuit is open only if the counter is at least 3.
C21_OpenImpliesThreshold ==
    circuit_open => failure_count >= MAX_FAILURES_BEFORE_OPEN

\* C21, amended: the circuit opens only in a step that leaves the counter at
\* 3 or more; while it stays open the counter falls below 3 only in a step
\* in which a judge call that was in flight answers, and that step sets it to
\* 0 and leaves the circuit open.
C21_OpenedAtThreshold ==
    /\ [][~circuit_open /\ circuit_open' =>
            failure_count' >= MAX_FAILURES_BEFORE_OPEN]_vars
    /\ [][(circuit_open /\ circuit_open'
             /\ failure_count >= MAX_FAILURES_BEFORE_OPEN
             /\ failure_count' < MAX_FAILURES_BEFORE_OPEN) =>
            /\ failure_count' = 0
            /\ \E q \in Procs :
                 /\ pc[q] = "judge"
                 /\ Returned(q)'
                 /\ ResultOf(q)'.validation.tag = "none"]_vars

\* C21 witness: one query's third failure in a row opened the circuit while
\* another query's judge call was in flight; that call then answered VALID,
\* and the circuit is open with the counter at 0.
C21_Witness ==
    /\ circuit_open
    /\ failure_count = 0
    /\ \E q \in Procs :
         /\ Returned(q)
         /\ ResultOf(q).validation.tag \in {"timeout", "error"}
    /\ \E q \in Procs :
         /\ Returned(q)
         /\ ResultOf(q).validation.tag = "none"
         /\ ResultOf(q).validation.is_valid
         /\ Has(stages[q], "judge")

\* both calls of the pair have come back
PairDone == InPair /\ probe.stage = "async" /\ pc[AsyncSlot] = "done"

\* ask and ask_async returned the same is_valid, answer and sources, made the
\* same call of score (or none, with the same confidence), and left the
\* validator in the same state.  The confidence is compared through the
\* arguments of score, the same call giving the same float.
SameOutcome ==
    LET a == ResultOf(SyncSlot)
        b == ResultOf(AsyncSlot)
        scored == Has(stages[SyncSlot], "score")
    IN /\ Returned(SyncSlot) /\ Returned(AsyncSlot)
       /\ a.validation.is_valid = b.validation.is_valid
       /\ a.answer = b.answer
       /\ a.sources = b.sources
       /\ scored = Has(stages[AsyncSlot], "score")
       /\ IF scored
          THEN /\ frame[SyncSlot].retrieval_scores = frame[AsyncSlot].retrieval_scores
               /\ Len(frame[SyncSlot].context_chunks) = Len(frame[AsyncSlot].context_chunks)
               /\ a.confidence \in Confidences(frame[AsyncSlot], b.validation)
               /\ b.confidence \in Confidences(frame[SyncSlot], a.validation)
          ELSE a.confidence = b.confidence
       /\ probe.after_sync.failure_count = failure_count
       /\ probe.after_sync.circuit_open = circuit_open

\* C22: from the same circuit state and with the same retrieved records,
\* generation result or failure and judge verdict or exception, ask and
\* ask_async return the same is_valid, answer, sources and confidence and
\* leave the circuit breaker in the same state.
C22_EntryPointsAgree == PairDone => SameOutcome

\* What the two entry points do keep: they agree whenever the judge answers
\* within VALIDATION_TIMEOUT or raises.
C22_AgreeWithinTimeout == (PairDone /\ probe.judge.kind # "late") => SameOutcome
====
